---- MODULE Spec2Model ----
(***************************************************************************)
(* Model of the yardstick MCP echo server (cmd/yardstick-server), of the    *)
(* test harness that drives its handler concurrently, and of the client    *)
(* (cmd/yardstick-client).                                                 *)
(*                                                                         *)
(* Go strings that the code inspects character by character (the echo      *)
(* input, the PORT environment value) are sequences of code points.        *)
(* Strings that are only compared or printed whole (header names and       *)
(* values, transport names, messages) are TLA+ strings.                    *)
(***************************************************************************)
EXTENDS Integers, Sequences, FiniteSets, TLC

VARIABLES
    \* ---- the server process (main, parseConfig) ----
    pc,          \* position of main: "start", "configured", "registered", "serving", "exited"
    args,        \* command line flags given to the process
    env,         \* process environment
    transport,   \* var transport string
    port,        \* var port int
    authHeader,  \* var authHeader string
    authValue,   \* var authValue string
    tools,       \* tools registered on the mcp.Server
    mux,         \* http.DefaultServeMux: the mounted patterns
    mode,        \* the listener mode that is running: "none", "stdio", "sse", "streamable-http"
    stderr,      \* lines written to the diagnostic stream (log and fmt.Fprintf(os.Stderr))
    exitCode,    \* process exit status, NoExit while it runs
    reqs,        \* protocol messages that reached the process, by slot
    \* ---- direct calls of the handler and of the validator ----
    echoIn,      \* the arguments of the call: [req, params]
    validRet,    \* return of validateAlphanumeric(params.Input), or NotCalled
    echoRet,     \* return triple of echoHandler, or NotCalled
    echoPrev,    \* an earlier call of echoHandler, kept to compare with: its arguments and return
    \* ---- concurrent calls of the handler (goroutines) ----
    calls,       \* goroutine id -> its locals
    results,     \* the buffered channel the goroutines report to
    \* ---- the client process (cmd/yardstick-client) ----
    cpc,         \* position of the client's main: "start", "parsed", "connected", "returning", "exited"
    cargs,       \* the client's command line: flags and positional arguments
    cenv,        \* the client's environment
    client,      \* the Client struct: config, client, session
    net,         \* what the client did outside the process: transports, subprocesses, handshakes, requests, closes
    cstdout,     \* lines the client printed on standard output
    cstderr,     \* lines the client logged
    cexit,       \* the client's exit status, NoExit while it runs
    ctest        \* a direct call of a Client method: the method, the config given, the error returned

vars == <<pc, args, env, transport, port, authHeader, authValue, tools, mux, mode,
          stderr, exitCode, reqs, echoIn, validRet, echoRet, echoPrev, calls, results,
          cpc, cargs, cenv, client, net, cstdout, cstderr, cexit, ctest>>

serverVars == <<pc, args, env, transport, port, authHeader, authValue, tools, mux,
                mode, stderr, exitCode, reqs>>
directVars == <<echoIn, validRet, echoRet, echoPrev>>
concVars == <<calls, results>>
clientVars == <<cpc, cargs, cenv, client, net, cstdout, cstderr, cexit, ctest>>

-----------------------------------------------------------------------------
(* Bounds of the model *)

\* longest echo input drawn for a direct call
MaxLen == 2

\* protocol messages the server process receives in one run
NumReqs == 1

\* goroutines of the concurrent test
NumCalls == 3

-----------------------------------------------------------------------------
(* Values *)

NotCalled == [called |-> FALSE]
NoError == "<nil>"
\* exitCode while the process has not exited
NoExit == 0 - 1
Unset == [set |-> FALSE]
Set(v) == [set |-> TRUE, val |-> v]

\* code points the inputs are drawn from: the ends of the three ranges of the
\* pattern, the code points next to them, and the symbols the tests name
\*   '0' '9' 'A' 'Z' 'a' 'z'   '/' ':' '@' '[' '`' '{'   ' ' '!' '-' '.' '_' '\n' U+00E9
CharSet == {48, 57, 65, 90, 97, 122, 47, 58, 64, 91, 96, 123, 32, 33, 45, 46, 95, 10, 233}

RECURSIVE SeqsUpTo(_, _)
SeqsUpTo(S, n) ==
    IF n = 0 THEN {<<>>}
    ELSE LET shorter == SeqsUpTo(S, n - 1)
         IN  shorter \cup {Append(s, c) : s \in {t \in shorter : Len(t) = n - 1}, c \in S}

Inputs == SeqsUpTo(CharSet, MaxLen)

-----------------------------------------------------------------------------
(* The Validator *)

\* one character of the class [a-zA-Z0-9]
InClass(c) == \/ (c >= 97 /\ c <= 122)
              \/ (c >= 65 /\ c <= 90)
              \/ (c >= 48 /\ c <= 57)

\* the position after the longest run of class characters of s that starts at i
RECURSIVE ConsumeClass(_, _)
ConsumeClass(s, i) ==
    IF i <= Len(s) /\ InClass(s[i]) THEN ConsumeClass(s, i + 1) ELSE i

\* the class [a-zA-Z0-9_] of \w
InWordClass(c) == InClass(c) \/ c = 95

RECURSIVE ConsumeWord(_, _)
ConsumeWord(s, i) ==
    IF i <= Len(s) /\ InWordClass(s[i]) THEN ConsumeWord(s, i + 1) ELSE i

\* the pattern written ^\w+$
MatchWordPattern(s) ==
    LET j == ConsumeWord(s, 1) IN j > 1 /\ j = Len(s) + 1

\* alphanumericRegex.MatchString: ^ at the start of the text, one or more class
\* characters, $ at the end of the text (no multi-line flag)
alphanumericRegexMatchString(s) ==
    LET j == ConsumeClass(s, 1) IN j > 1 /\ j = Len(s) + 1

\* a validator compiled from ^\w+$
validateWord(input) == MatchWordPattern(input)

validateAlphanumeric(input) == alphanumericRegexMatchString(input)

-----------------------------------------------------------------------------
(* The Echo Tool Handler *)

NilResult == [isNil |-> TRUE]
NilMeta == [isNil |-> TRUE]
MetaOf(kv) == [isNil |-> FALSE, kv |-> kv]

\* &mcp.CallToolResult{Content: ..., IsError: ...}; the fields not named are zero
CallToolResult(content, isError, meta) ==
    [isNil |-> FALSE, Content |-> content, IsError |-> isError, Meta |-> meta]

TextContent(text) == [Type |-> "text", Text |-> text]

EchoResponse(output) == [Output |-> output]

\* the request as the handler receives it: Params may be nil, Params.Meta may be nil
CallToolRequest(hasParams, meta) == [hasParams |-> hasParams, Meta |-> meta]

\* the metadata of a request, NilMeta when it carries none
RequestMeta(req) == IF req.hasParams THEN req.Meta ELSE NilMeta

MetaMaps == { [k \in {"progressToken"} |-> "task123"],
              [k \in {"progressToken", "customKey"} |->
                  IF k = "progressToken" THEN "test123" ELSE "customValue"] }

Requests == {CallToolRequest(FALSE, NilMeta), CallToolRequest(TRUE, NilMeta),
             CallToolRequest(TRUE, MetaOf(<<>>))}
            \cup {CallToolRequest(TRUE, MetaOf(m)) : m \in MetaMaps}

EchoRequest(input) == [Input |-> input]

\* the handler as it stood before error-flagged results: bad input is a returned error
echoHandlerPropagating(req, params) ==
    IF ~validateAlphanumeric(params.Input)
    THEN [result |-> NilResult, response |-> EchoResponse(<<>>),
          err |-> "input must be alphanumeric only"]
    ELSE [result |-> NilResult, response |-> EchoResponse(params.Input), err |-> NoError]

\* a handler that drops the first character of what it echoes
echoHandlerTruncating(req, params) ==
    IF ~validateAlphanumeric(params.Input)
    THEN [result |-> CallToolResult(<<TextContent("input must be alphanumeric only")>>,
                                    TRUE, NilMeta),
          response |-> EchoResponse(<<>>), err |-> NoError]
    ELSE [result |-> NilResult, response |-> EchoResponse(Tail(params.Input)),
          err |-> NoError]

\* a handler that always builds the result wrapper and copies the request's metadata
echoHandlerAlwaysWrapping(req, params) ==
    IF ~validateAlphanumeric(params.Input)
    THEN [result |-> CallToolResult(<<TextContent("input must be alphanumeric only")>>,
                                    TRUE, NilMeta),
          response |-> EchoResponse(<<>>), err |-> NoError]
    ELSE [result |-> CallToolResult(<<>>, FALSE, RequestMeta(req)),
          response |-> EchoResponse(params.Input), err |-> NoError]

\* a handler that keeps answering with the error once the call before it failed
echoHandlerSticky(req, params) ==
    IF \/ ~validateAlphanumeric(params.Input)
       \/ (echoRet.called /\ ~echoRet.ret.result.isNil)
    THEN [result |-> CallToolResult(<<TextContent("input must be alphanumeric only")>>,
                                    TRUE, NilMeta),
          response |-> EchoResponse(<<>>), err |-> NoError]
    ELSE [result |-> NilResult, response |-> EchoResponse(params.Input), err |-> NoError]

\* echoHandler(_ context.Context, _ *mcp.CallToolRequest, params EchoRequest):
\* the request is not read
echoHandler(req, params) ==
    IF ~validateAlphanumeric(params.Input)
    THEN [result |-> CallToolResult(<<TextContent("input must be alphanumeric only")>>,
                                    TRUE, NilMeta),
          response |-> EchoResponse(<<>>), err |-> NoError]
    ELSE [result |-> NilResult, response |-> EchoResponse(params.Input), err |-> NoError]

-----------------------------------------------------------------------------
(* Configuration: flags and environment *)

Supported == {"stdio", "sse", "streamable-http"}

\* strconv.Atoi on a string of code points: an optional sign, then one or more
\* decimal digits and nothing else
IsDigit(c) == c >= 48 /\ c <= 57

RECURSIVE DigitsValue(_, _, _)
DigitsValue(s, i, acc) ==
    IF i > Len(s) THEN acc ELSE DigitsValue(s, i + 1, acc * 10 + (s[i] - 48))

Atoi(s) ==
    LET signed == Len(s) > 0 /\ s[1] \in {43, 45}
        body == IF signed THEN Tail(s) ELSE s
    IN  IF Len(body) = 0 \/ \E i \in 1..Len(body) : ~IsDigit(body[i])
        THEN [ok |-> FALSE, val |-> 0]
        ELSE [ok |-> TRUE,
              val |-> IF signed /\ s[1] = 45 THEN 0 - DigitsValue(body, 1, 0)
                      ELSE DigitsValue(body, 1, 0)]

\* os.LookupEnv and os.Getenv
LookupEnv(name) == env[name]
Getenv(name) == IF env[name].set THEN env[name].val ELSE ""

\* the values the process can be started with
ArgTransports == {Unset, Set("sse"), Set("streamable-http"), Set("grpc")}
ArgPorts == {Unset}
EnvTransports == {Unset, Set("sse"), Set("websocket")}
EnvPorts == {Unset, Set(<<57, 48, 57, 48>>)}                 \* "9090"
EnvAuthHeaders == {Unset, Set("X-Auth-Token"), Set("x-auth-token")}
EnvAuthValues == {Unset, Set("secret123")}

\* the parseConfig of the older server: it looks TRANSPORT up
parseConfigTransportLegacy ==
    LET flagged == IF args.transport.set THEN args.transport.val ELSE "stdio"
        t == LookupEnv("TRANSPORT")
    IN  IF t.set THEN t.val ELSE flagged

\* parseConfig: the flags with their defaults, then the environment over them
parseConfigTransport ==
    LET flagged == IF args.transport.set THEN args.transport.val ELSE "stdio"
        t == LookupEnv("MCP_TRANSPORT")
    IN  IF t.set THEN t.val ELSE flagged

parseConfigPort ==
    LET flagged == IF args.port.set THEN args.port.val ELSE 8080
        p == LookupEnv("PORT")
    IN  IF p.set /\ Atoi(p.val).ok THEN Atoi(p.val).val ELSE flagged

ParseConfig ==
    /\ pc = "start"
    /\ transport' = parseConfigTransport
    /\ port' = parseConfigPort
    /\ authHeader' = Getenv("AUTH_HEADER")
    /\ authValue' = Getenv("AUTH_VALUE")
    /\ pc' = "configured"
    /\ UNCHANGED <<args, env, tools, mux, mode, stderr, exitCode, reqs>>
    /\ UNCHANGED <<directVars, concVars, clientVars>>

-----------------------------------------------------------------------------
(* The Auth Gate *)

\* textproto.CanonicalMIMEHeaderKey on the header names of the model
CanonicalMIMEHeaderKey(k) ==
    CASE k = "x-auth-token" -> "X-Auth-Token"
      [] k = "x-other" -> "X-Other"
      [] OTHER -> k

\* http.Header.Get: the first value under the canonical key, "" when there is none
HeaderGet(h, key) ==
    LET ck == CanonicalMIMEHeaderKey(key)
    IN  IF ck \in DOMAIN h /\ Len(h[ck]) > 0 THEN h[ck][1] ELSE ""

\* strings.ToLower on the header values of the model
ToLower(v) == IF v = "SECRET123" THEN "secret123" ELSE v

\* a gate that compares without regard to case
checkAuthFolding(r) ==
    IF authHeader = "" THEN NoError
    ELSE IF ToLower(HeaderGet(r.headers, authHeader)) # ToLower(authValue)
         THEN "unauthorized"
         ELSE NoError

\* a gate without the early return for an empty header name
checkAuthAlwaysOn(r) ==
    IF HeaderGet(r.headers, authHeader) # authValue THEN "unauthorized" ELSE NoError

checkAuth(r) ==
    IF authHeader = "" THEN NoError
    ELSE IF HeaderGet(r.headers, authHeader) # authValue THEN "unauthorized"
         ELSE NoError

\* what the MCP protocol handler of the SDK does with a request it is given:
\* it may dispatch a tools/call to the echo tool, answer another method, or
\* refuse a malformed message
ProtocolOutcomes == {"tool", "other", "bad"}

ProtocolServeHTTP(r, outcome) ==
    [r EXCEPT !.nextCalls = @ + 1,
              !.toolCalls = IF outcome = "tool" THEN @ + 1 ELSE @,
              !.status = IF outcome = "bad" THEN 400 ELSE 200]

\* http.Error(w, msg, code)
HttpError(r, msg, code) == [r EXCEPT !.status = code, !.body = msg]

\* a wrapper that answers 401 and then still calls the wrapped handler
authWrapperFallingThrough(r, outcome) ==
    LET err == checkAuth(r)
        seen == [r EXCEPT !.checked = TRUE, !.authErr = err]
    IN  IF err # NoError
        THEN ProtocolServeHTTP(HttpError(seen, err, 401), outcome)
        ELSE ProtocolServeHTTP(seen, outcome)

\* a wrapper that hands a passing request to the wrapped handler twice
authWrapperForwardingTwice(r, outcome) ==
    LET err == checkAuth(r)
        seen == [r EXCEPT !.checked = TRUE, !.authErr = err]
    IN  IF err # NoError
        THEN HttpError(seen, err, 401)
        ELSE ProtocolServeHTTP(ProtocolServeHTTP(seen, outcome), outcome)

\* the handler authWrapper(next) returns, applied to a request
authWrapper(r, outcome) ==
    LET err == checkAuth(r)
        seen == [r EXCEPT !.checked = TRUE, !.authErr = err]
    IN  IF err # NoError
        THEN HttpError(seen, err, 401)
        ELSE ProtocolServeHTTP(seen, outcome)

-----------------------------------------------------------------------------
(* main: tool registration and the Transport Selector *)

Slots == 1..NumReqs

NoReq == [state |-> "none", via |-> "", path |-> "", headers |-> <<>>,
          checked |-> FALSE, authErr |-> NoError, status |-> 0, body |-> "",
          nextCalls |-> 0, toolCalls |-> 0]

NoHeaders == <<>>
HeaderSets == { NoHeaders,
                [k \in {"X-Auth-Token"} |-> <<"secret123">>],
                [k \in {"X-Auth-Token"} |-> <<"wrongvalue">>],
                [k \in {"X-Auth-Token"} |-> <<"SECRET123">>],
                [k \in {"X-Auth-Token"} |-> <<"wrongvalue", "secret123">>],
                [k \in {"X-Other"} |-> <<"secret123">>] }

Paths == {"/sse", "/mcp", "/"}

Log(line) == Append(stderr, line)

\* a registration under another name
AddToolMisnamed ==
    /\ pc = "configured"
    /\ tools' = tools \cup {"echo2"}
    /\ pc' = "registered"
    /\ UNCHANGED <<args, env, transport, port, authHeader, authValue, mux, mode,
                   stderr, exitCode, reqs>>
    /\ UNCHANGED <<directVars, concVars, clientVars>>

\* mcp.NewServer and mcp.AddTool(server, &mcp.Tool{Name: "echo", ...}, echoHandler)
AddTool ==
    /\ pc = "configured"
    /\ tools' = tools \cup {"echo"}
    /\ pc' = "registered"
    /\ UNCHANGED <<args, env, transport, port, authHeader, authValue, mux, mode,
                   stderr, exitCode, reqs>>
    /\ UNCHANGED <<directVars, concVars, clientVars>>

\* case "stdio": server.Run(ctx, &mcp.StdioTransport{}) starts the stdio loop
StartStdio ==
    /\ pc = "registered"
    /\ transport = "stdio"
    /\ stderr' = Log("Starting MCP server with stdio transport")
    /\ mode' = "stdio"
    /\ pc' = "serving"
    /\ UNCHANGED <<args, env, transport, port, authHeader, authValue, tools, mux,
                   exitCode, reqs>>
    /\ UNCHANGED <<directVars, concVars, clientVars>>

\* server.Run returns: with an error main ends in log.Fatal, without one main returns
StdioRunReturns ==
    /\ pc = "serving"
    /\ mode = "stdio"
    /\ \E failed \in BOOLEAN :
          /\ stderr' = IF failed THEN Log("Failed to run server:") ELSE stderr
          /\ exitCode' = IF failed THEN 1 ELSE 0
    /\ mode' = "none"
    /\ pc' = "exited"
    /\ UNCHANGED <<args, env, transport, port, authHeader, authValue, tools, mux, reqs>>
    /\ UNCHANGED <<directVars, concVars, clientVars>>

\* a mount that serves the streamable endpoint next to the SSE one
MountSSEAndStreamable ==
    [p \in {"/sse", "/mcp"} |->
        [wrapped |-> TRUE, next |-> IF p = "/sse" THEN "sse" ELSE "streamable-http"]]

\* http.Handle("/sse", authWrapper(handler))
MountSSE == [p \in {"/sse"} |-> [wrapped |-> TRUE, next |-> "sse"]]

\* http.Handle("/mcp", authWrapper(handler))
MountStreamable == [p \in {"/mcp"} |-> [wrapped |-> TRUE, next |-> "streamable-http"]]

\* case "sse": three log lines, the mount, then log.Fatal(srv.ListenAndServe()):
\* the listener either binds and serves, or ListenAndServe returns at once and
\* the process exits
StartSSE ==
    /\ pc = "registered"
    /\ transport = "sse"
    /\ mux' = MountSSE
    /\ \E bound \in BOOLEAN :
          LET lines == <<"Starting MCP server with SSE transport on port",
                         "SSE endpoint:",
                         "Messages will be handled automatically by the SSE handler">>
          IN  IF bound
              THEN /\ stderr' = stderr \o lines
                   /\ mode' = "sse"
                   /\ pc' = "serving"
                   /\ exitCode' = exitCode
              ELSE /\ stderr' = (stderr \o lines) \o <<"listen: address already in use">>
                   /\ mode' = "none"
                   /\ pc' = "exited"
                   /\ exitCode' = 1
    /\ UNCHANGED <<args, env, transport, port, authHeader, authValue, tools, reqs>>
    /\ UNCHANGED <<directVars, concVars, clientVars>>

\* case "streamable-http": one log line, the mount, then log.Fatal(srv.ListenAndServe())
StartStreamableHTTP ==
    /\ pc = "registered"
    /\ transport = "streamable-http"
    /\ mux' = MountStreamable
    /\ \E bound \in BOOLEAN :
          LET lines == <<"Starting MCP server with streamable HTTP transport on port">>
          IN  IF bound
              THEN /\ stderr' = stderr \o lines
                   /\ mode' = "streamable-http"
                   /\ pc' = "serving"
                   /\ exitCode' = exitCode
              ELSE /\ stderr' = (stderr \o lines) \o <<"listen: address already in use">>
                   /\ mode' = "none"
                   /\ pc' = "exited"
                   /\ exitCode' = 1
    /\ UNCHANGED <<args, env, transport, port, authHeader, authValue, tools, reqs>>
    /\ UNCHANGED <<directVars, concVars, clientVars>>

\* ListenAndServe returns while serving: log.Fatal ends the process
ListenAndServeReturns ==
    /\ pc = "serving"
    /\ mode \in {"sse", "streamable-http"}
    /\ stderr' = Log("http: Server closed")
    /\ exitCode' = 1
    /\ mode' = "none"
    /\ pc' = "exited"
    /\ UNCHANGED <<args, env, transport, port, authHeader, authValue, tools, mux, reqs>>
    /\ UNCHANGED <<directVars, concVars, clientVars>>

\* a default branch that falls back to the stdio loop
UnknownTransportFallsBack ==
    /\ pc = "registered"
    /\ transport \notin Supported
    /\ stderr' = Log("Starting MCP server with stdio transport")
    /\ mode' = "stdio"
    /\ pc' = "serving"
    /\ UNCHANGED <<args, env, transport, port, authHeader, authValue, tools, mux,
                   exitCode, reqs>>
    /\ UNCHANGED <<directVars, concVars, clientVars>>

\* default: two lines on os.Stderr, then os.Exit(1)
UnknownTransport ==
    /\ pc = "registered"
    /\ transport \notin Supported
    /\ stderr' = stderr \o <<"Unknown transport type:",
                             "Supported transports: stdio, sse, streamable-http">>
    /\ exitCode' = 1
    /\ pc' = "exited"
    /\ UNCHANGED <<args, env, transport, port, authHeader, authValue, tools, mux,
                   mode, reqs>>
    /\ UNCHANGED <<directVars, concVars, clientVars>>

-----------------------------------------------------------------------------
(* Serving *)

\* the mux of net/http: the handler mounted on the request's path, or 404
MuxServeHTTP(r, outcome) ==
    IF r.path \notin DOMAIN mux
    THEN HttpError(r, "404 page not found", 404)
    ELSE IF mux[r.path].wrapped
         THEN authWrapper(r, outcome)
         ELSE ProtocolServeHTTP(r, outcome)

\* a request path that forgets the expected value once it has answered
ServeHTTPForgetting(i) ==
    /\ pc = "serving"
    /\ mode \in {"sse", "streamable-http"}
    /\ reqs[i].state = "none"
    /\ \E path \in Paths, headers \in HeaderSets, outcome \in ProtocolOutcomes :
          reqs' = [reqs EXCEPT ![i] =
                      [MuxServeHTTP([NoReq EXCEPT !.via = "http", !.path = path,
                                                  !.headers = headers], outcome)
                          EXCEPT !.state = "answered"]]
    /\ authValue' = ""
    /\ UNCHANGED <<pc, args, env, transport, port, authHeader, tools, mux,
                   mode, stderr, exitCode>>
    /\ UNCHANGED <<directVars, concVars, clientVars>>

\* one HTTP request reaches the listener and is answered
ServeHTTP(i) ==
    /\ pc = "serving"
    /\ mode \in {"sse", "streamable-http"}
    /\ reqs[i].state = "none"
    /\ \E path \in Paths, headers \in HeaderSets, outcome \in ProtocolOutcomes :
          reqs' = [reqs EXCEPT ![i] =
                      [MuxServeHTTP([NoReq EXCEPT !.via = "http", !.path = path,
                                                  !.headers = headers], outcome)
                          EXCEPT !.state = "answered"]]
    /\ UNCHANGED <<pc, args, env, transport, port, authHeader, authValue, tools, mux,
                   mode, stderr, exitCode>>
    /\ UNCHANGED <<directVars, concVars, clientVars>>

\* one message arrives on standard input: the stdio loop hands it to the
\* protocol handler, there is no gate on this transport
ServeStdio(i) ==
    /\ pc = "serving"
    /\ mode = "stdio"
    /\ reqs[i].state = "none"
    /\ \E outcome \in ProtocolOutcomes :
          reqs' = [reqs EXCEPT ![i] =
                      [ProtocolServeHTTP([NoReq EXCEPT !.via = "stdin"], outcome)
                          EXCEPT !.state = "answered", !.status = 0]]
    /\ UNCHANGED <<pc, args, env, transport, port, authHeader, authValue, tools, mux,
                   mode, stderr, exitCode>>
    /\ UNCHANGED <<directVars, concVars, clientVars>>

-----------------------------------------------------------------------------
(* The client: values *)

\* items a list call returns at most
MaxItems == 2

\* a Go error is its message, cut into consecutive pieces: the phrases the
\* callers and the tests look for are pieces of their own, so that "the
\* message contains the phrase" is "the phrase is one of the pieces"; the nil
\* error is the empty sequence
NilErr == <<>>
\* fmt.Errorf("...: %w", err)
Wrap(prefix, err) == <<prefix>> \o err
\* strings.Contains(err.Error(), phrase)
ErrContains(err, phrase) == \E k \in 1..Len(err) : err[k] = phrase

\* Config
Config(t, address, p, command, cmdArgs) ==
    [Transport |-> t, Address |-> address, Port |-> p, Command |-> command,
     Args |-> cmdArgs, Timeout |-> "30s"]

\* mcp.Transport values
NilTransport == [kind |-> "nil"]

\* fmt.Sprintf("http://%s:%d/sse", address, port), kept as the parts the HTTP
\* client takes it apart into
Url(address, p, path) == [scheme |-> "http", host |-> address, port |-> p, path |-> path]

\* *mcp.ClientSession
NilSession == [isNil |-> TRUE, closed |-> FALSE]
OpenSession == [isNil |-> FALSE, closed |-> FALSE]

\* NewClient(config): client and session are nil
NewClient(config) == [config |-> config, client |-> FALSE, session |-> NilSession]

NoNet == [transports |-> <<>>, subprocs |-> 0, handshakes |-> 0, sent |-> <<>>,
          closes |-> 0]

\* one printed line: the format, its string arguments, its integer arguments
Line(f, strs, ints) == [f |-> f, s |-> strs, n |-> ints]

\* what the server sends back
ToolPool == {[Name |-> "echo", Description |-> "Echo back an alphanumeric string"],
             [Name |-> "alpha", Description |-> "first by name"]}
ResourcePool == {[URI |-> "file:///z", Name |-> "a-resource", Description |-> "a file"],
                 [URI |-> "file:///a", Name |-> "z-resource", Description |-> "another"]}

Failed == [ok |-> FALSE, items |-> <<>>]
Listed(items) == [ok |-> TRUE, items |-> items]
ToolListings == {Failed} \cup {Listed(l) : l \in SeqsUpTo(ToolPool, MaxItems)}
ResourceListings == {Failed} \cup {Listed(l) : l \in SeqsUpTo(ResourcePool, MaxItems)}

\* results of session.CallTool: an error, or a result with its content
CallOutcomes == {[ok |-> FALSE, content |-> <<>>],
                 [ok |-> TRUE, content |-> <<TextContent("{\"output\":\"test123\"}")>>],
                 [ok |-> TRUE, content |-> <<TextContent("input must be alphanumeric only")>>]}

\* an Unmarshal that takes any text for an empty object
jsonUnmarshalLenient(blob) == [ok |-> TRUE, value |-> <<>>]

\* json.Unmarshal([]byte(toolArgs), &arguments) into a map[string]interface{},
\* on the argument strings of the model: an object or null parses, anything
\* else (truncated text, bare words, a JSON value that is no object) is an error
ArgBlobs == {"{}", "{\"input\": \"test123\"}", "{\"key\": \"value\"", "not json", "[1]"}

jsonUnmarshalMap(blob) ==
    CASE blob = "{}" -> [ok |-> TRUE, value |-> <<>>]
      [] blob = "{\"input\": \"test123\"}" ->
            [ok |-> TRUE, value |-> [k \in {"input"} |-> "test123"]]
      [] blob = "{\"input\":\"hellomatey123\"}" ->
            [ok |-> TRUE, value |-> [k \in {"input"} |-> "hellomatey123"]]
      [] blob = "{\"input\": \"hello world\"}" ->
            [ok |-> TRUE, value |-> [k \in {"input"} |-> "hello world"]]
      [] blob = "null" -> [ok |-> TRUE, value |-> <<>>]
      [] OTHER -> [ok |-> FALSE, value |-> <<>>]

-----------------------------------------------------------------------------
(* The client: Client Connector *)

\* a connectStdio that builds the transport whatever the command is
connectStdioUnchecked(config) ==
    [transport |-> [kind |-> "command", command |-> config.Command, args |-> config.Args],
     err |-> NilErr]

\* connectStdio: the command is required; the subprocess is not started here
connectStdio(config) ==
    IF config.Command = ""
    THEN [transport |-> NilTransport,
          err |-> <<"command is required", " for stdio transport">>]
    ELSE [transport |-> [kind |-> "command", command |-> config.Command,
                         args |-> config.Args],
          err |-> NilErr]

\* a connectSSE that targets the streamable endpoint
connectSSEOnMcp(config) ==
    [transport |-> [kind |-> "sse", url |-> Url(config.Address, config.Port, "/mcp")],
     err |-> NilErr]

connectSSE(config) ==
    [transport |-> [kind |-> "sse", url |-> Url(config.Address, config.Port, "/sse")],
     err |-> NilErr]

connectStreamableHTTP(config) ==
    [transport |-> [kind |-> "streamable-http",
                    url |-> Url(config.Address, config.Port, "/mcp")],
     err |-> NilErr]

\* c.client.Connect(ctx, transport) of the SDK: a command transport starts its
\* subprocess, then the handshake is made; it succeeds or not
SdkConnect(n, tr) ==
    [n EXCEPT !.subprocs = IF tr.kind = "command" THEN @ + 1 ELSE @,
              !.handshakes = @ + 1]

\* Connect: the client after the call, what it did outside, and the error
ConnectWith(c, n, made, handshakeOK) ==
    IF made.err # NilErr
    THEN [client |-> c, net |-> n, err |-> Wrap("failed to create transport: ", made.err)]
    ELSE LET n1 == [n EXCEPT !.transports = Append(@, made.transport)]
             n2 == SdkConnect(n1, made.transport)
             c1 == [c EXCEPT !.client = TRUE]
         IN  IF ~handshakeOK
             THEN [client |-> c1, net |-> n2, err |-> <<"connection failed">>]
             ELSE [client |-> [c1 EXCEPT !.session = OpenSession], net |-> n2,
                   err |-> NilErr]

\* a Connect that tries the handshake a second time when the first one fails
ConnectRetrying(c, n, handshakeOK) ==
    LET made == IF c.config.Transport = "stdio" THEN connectStdio(c.config)
                ELSE IF c.config.Transport = "sse" THEN connectSSE(c.config)
                ELSE connectStreamableHTTP(c.config)
        first == ConnectWith(c, n, made, handshakeOK)
    IN  IF c.config.Transport \notin {"stdio", "sse", "streamable-http"}
        THEN [client |-> c, net |-> n,
              err |-> <<"unsupported transport type", ": ", c.config.Transport>>]
        ELSE IF made.err = NilErr /\ ~handshakeOK
             THEN ConnectWith(first.client, first.net, made, handshakeOK)
             ELSE first

\* a Connect that sends an unknown transport name down the stdio path
ConnectDefaultingToStdio(c, n, handshakeOK) ==
    IF c.config.Transport = "sse"
    THEN ConnectWith(c, n, connectSSE(c.config), handshakeOK)
    ELSE IF c.config.Transport = "streamable-http"
    THEN ConnectWith(c, n, connectStreamableHTTP(c.config), handshakeOK)
    ELSE ConnectWith(c, n, connectStdio(c.config), handshakeOK)

Connect(c, n, handshakeOK) ==
    IF c.config.Transport = "stdio"
    THEN ConnectWith(c, n, connectStdio(c.config), handshakeOK)
    ELSE IF c.config.Transport = "sse"
    THEN ConnectWith(c, n, connectSSE(c.config), handshakeOK)
    ELSE IF c.config.Transport = "streamable-http"
    THEN ConnectWith(c, n, connectStreamableHTTP(c.config), handshakeOK)
    ELSE [client |-> c, net |-> n,
          err |-> <<"unsupported transport type", ": ", c.config.Transport>>]

\* a Close that closes whether or not there is a session
CloseAlways(c, n) ==
    [client |-> [c EXCEPT !.session.closed = TRUE],
     net |-> [n EXCEPT !.closes = @ + 1]]

\* what Close returns: the error of session.Close(), nil without a session
CloseErr(c, sessionErr) == IF ~c.session.isNil THEN sessionErr ELSE NilErr

\* Close: closes the session when there is one
Close(c, n) ==
    IF ~c.session.isNil
    THEN [client |-> [c EXCEPT !.session.closed = TRUE],
          net |-> [n EXCEPT !.closes = @ + 1]]
    ELSE [client |-> c, net |-> n]

-----------------------------------------------------------------------------
(* The client: Client Actions *)

\* a request on the session and what came back: whether it succeeded, and the
\* items of a listing
Send(n, method, ok, items) ==
    [n EXCEPT !.sent = Append(@, [method |-> method, ok |-> ok, items |-> items])]

ToolLine(tool) == Line("  - %s: %s", <<tool.Name, tool.Description>>, <<>>)
ResourceLine(resource) == Line("  - %s: %s", <<resource.URI, resource.Description>>, <<>>)

\* the lines of the range loop: one per item, in the order of the slice
RECURSIVE ToolLines(_)
ToolLines(items) ==
    IF items = <<>> THEN <<>> ELSE <<ToolLine(Head(items))>> \o ToolLines(Tail(items))

\* a loop that skips an item equal to the one after it
RECURSIVE ToolLinesDeduplicated(_)
ToolLinesDeduplicated(items) ==
    IF items = <<>> THEN <<>>
    ELSE IF Len(items) > 1 /\ items[1] = items[2] THEN ToolLinesDeduplicated(Tail(items))
    ELSE <<ToolLine(Head(items))>> \o ToolLinesDeduplicated(Tail(items))

RECURSIVE ResourceLines(_)
ResourceLines(items) ==
    IF items = <<>> THEN <<>>
    ELSE <<ResourceLine(Head(items))>> \o ResourceLines(Tail(items))

\* a ListTools that prints a tool the server returned twice only once
ListToolsDeduplicated(n, listing) ==
    IF ~listing.ok
    THEN [net |-> Send(n, "tools/list", FALSE, <<>>), out |-> <<>>,
          err |-> Wrap("failed to list tools: ", <<"request failed">>)]
    ELSE [net |-> Send(n, "tools/list", TRUE, listing.items),
          out |-> <<Line("Available tools (%d):", <<>>, <<Len(listing.items)>>)>>
                  \o ToolLinesDeduplicated(listing.items),
          err |-> NilErr]

\* ListTools: the state outside, the lines printed, the error
ListTools(n, listing) ==
    IF ~listing.ok
    THEN [net |-> Send(n, "tools/list", FALSE, <<>>), out |-> <<>>,
          err |-> Wrap("failed to list tools: ", <<"request failed">>)]
    ELSE [net |-> Send(n, "tools/list", TRUE, listing.items),
          out |-> <<Line("Available tools (%d):", <<>>, <<Len(listing.items)>>)>>
                  \o ToolLines(listing.items),
          err |-> NilErr]

ListResources(n, listing) ==
    IF ~listing.ok
    THEN [net |-> Send(n, "resources/list", FALSE, <<>>), out |-> <<>>,
          err |-> Wrap("failed to list resources: ", <<"request failed">>)]
    ELSE [net |-> Send(n, "resources/list", TRUE, listing.items),
          out |-> <<Line("Available resources (%d):", <<>>, <<Len(listing.items)>>)>>
                  \o ResourceLines(listing.items),
          err |-> NilErr]

\* CallTool: the content is printed as JSON
CallTool(n, toolName, arguments, outcome) ==
    IF ~outcome.ok
    THEN [net |-> Send(n, "tools/call", FALSE, <<>>), out |-> <<>>,
          err |-> <<"failed to call tool ", toolName, ": ", "request failed">>]
    ELSE [net |-> Send(n, "tools/call", TRUE, <<>>),
          out |-> <<Line("%v", <<outcome.content[1].Text>>, <<>>)>>,
          err |-> NilErr]

\* a GetServerInfo that gives up when the tool listing fails
GetServerInfoStrict(c, n, pingOK, toolListing, resourceListing) ==
    IF ~pingOK
    THEN [net |-> Send(n, "ping", FALSE, <<>>), out |-> <<>>,
          err |-> Wrap("failed to ping server: ", <<"request failed">>)]
    ELSE IF ~toolListing.ok
    THEN [net |-> Send(Send(n, "ping", TRUE, <<>>), "tools/list", FALSE, <<>>),
          out |-> <<Line("Server Info:", <<>>, <<>>),
                    Line("  Session ID: %s", <<"session-1">>, <<>>),
                    Line("  Connection: Active", <<>>, <<>>)>>,
          err |-> Wrap("failed to list tools: ", <<"request failed">>)]
    ELSE [net |-> Send(Send(Send(n, "ping", TRUE, <<>>),
                            "tools/list", toolListing.ok, toolListing.items),
                       "resources/list", resourceListing.ok, resourceListing.items),
          out |-> <<Line("Server Info:", <<>>, <<>>),
                    Line("  Session ID: %s", <<"session-1">>, <<>>),
                    Line("  Connection: Active", <<>>, <<>>),
                    Line("  Tools Available: %d", <<>>, <<Len(toolListing.items)>>)>>
                  \o (IF resourceListing.ok
                      THEN <<Line("  Resources Available: %d", <<>>,
                                  <<Len(resourceListing.items)>>)>>
                      ELSE <<>>),
          err |-> NilErr]

\* GetServerInfo: ping, then the two counts, each printed only when its call worked
GetServerInfo(c, n, pingOK, toolListing, resourceListing) ==
    IF ~pingOK
    THEN [net |-> Send(n, "ping", FALSE, <<>>), out |-> <<>>,
          err |-> Wrap("failed to ping server: ", <<"request failed">>)]
    ELSE [net |-> Send(Send(Send(n, "ping", TRUE, <<>>),
                            "tools/list", toolListing.ok, toolListing.items),
                       "resources/list", resourceListing.ok, resourceListing.items),
          out |-> <<Line("Server Info:", <<>>, <<>>),
                    Line("  Session ID: %s", <<"session-1">>, <<>>),
                    Line("  Connection: Active", <<>>, <<>>)>>
                  \o (IF toolListing.ok
                      THEN <<Line("  Tools Available: %d", <<>>, <<Len(toolListing.items)>>)>>
                      ELSE <<>>)
                  \o (IF resourceListing.ok
                      THEN <<Line("  Resources Available: %d", <<>>,
                                  <<Len(resourceListing.items)>>)>>
                      ELSE <<>>),
          err |-> NilErr]

-----------------------------------------------------------------------------
(* The client: Client Config Source and main *)

Flag(f, default) == IF cargs[f].set THEN cargs[f].val ELSE default

\* parseConfig: defaults, flags over them, the positional arguments when a
\* command flag was given, then the environment over the flags
clientParseConfig ==
    LET command == Flag("command", "")
        p == cenv.PORT
    IN  Config(IF cenv.TRANSPORT.set THEN cenv.TRANSPORT.val ELSE Flag("transport", "stdio"),
               IF cenv.ADDRESS.set THEN cenv.ADDRESS.val ELSE Flag("address", "localhost"),
               IF p.set /\ Atoi(p.val).ok THEN Atoi(p.val).val ELSE Flag("port", 8080),
               IF cenv.COMMAND.set THEN cenv.COMMAND.val ELSE command,
               IF command # "" THEN cargs.rest ELSE <<>>)

\* the three os.Setenv calls at the end of parseConfig
clientSetenv ==
    [cenv EXCEPT !.CLIENT_ACTION = Set(Flag("action", "info")),
                 !.CLIENT_TOOL_NAME = Set(Flag("tool", "")),
                 !.CLIENT_TOOL_ARGS = Set(Flag("args", "{}"))]

ClientGetenv(name) == IF cenv[name].set THEN cenv[name].val ELSE ""

\* log.Fatalf / log.Fatal: one line on the log, then os.Exit(1); deferred
\* calls do not run
Fatal(line) ==
    /\ cstderr' = Append(cstderr, line)
    /\ cexit' = 1
    /\ cpc' = "exited"

\* main, lines 235-237: parseConfig and NewClient
ClientMainStart ==
    /\ cpc = "start"
    /\ client' = NewClient(clientParseConfig)
    /\ cenv' = clientSetenv
    /\ cpc' = "parsed"
    /\ UNCHANGED <<cargs, net, cstdout, cstderr, cexit>>
    /\ UNCHANGED <<serverVars, directVars, concVars, ctest>>

\* main, lines 243-246: Connect, fatal when it fails
ClientMainConnect ==
    /\ cpc = "parsed"
    /\ \E handshakeOK \in BOOLEAN :
          LET r == Connect(client, net, handshakeOK)
          IN  /\ client' = r.client
              /\ net' = r.net
              /\ IF r.err # NilErr
                 THEN Fatal(<<"Failed to connect to MCP server: ">> \o r.err)
                 ELSE /\ cpc' = "connected"
                      /\ UNCHANGED <<cstderr, cexit>>
    /\ UNCHANGED <<cargs, cenv, cstdout>>
    /\ UNCHANGED <<serverVars, directVars, concVars, ctest>>

\* case "info"
ClientMainInfo ==
    /\ cpc = "connected"
    /\ ClientGetenv("CLIENT_ACTION") = "info"
    /\ \E pingOK \in BOOLEAN, tl \in ToolListings, rl \in ResourceListings :
          LET r == GetServerInfo(client, net, pingOK, tl, rl)
          IN  /\ net' = r.net
              /\ cstdout' = cstdout \o r.out
              /\ IF r.err # NilErr
                 THEN Fatal(<<"Failed to get server info: ">> \o r.err)
                 ELSE /\ cpc' = "returning"
                      /\ UNCHANGED <<cstderr, cexit>>
    /\ UNCHANGED <<cargs, cenv, client>>
    /\ UNCHANGED <<serverVars, directVars, concVars, ctest>>

\* case "list-tools"
ClientMainListTools ==
    /\ cpc = "connected"
    /\ ClientGetenv("CLIENT_ACTION") = "list-tools"
    /\ \E tl \in ToolListings :
          LET r == ListTools(net, tl)
          IN  /\ net' = r.net
              /\ cstdout' = cstdout \o r.out
              /\ IF r.err # NilErr
                 THEN Fatal(<<"Failed to list tools: ">> \o r.err)
                 ELSE /\ cpc' = "returning"
                      /\ UNCHANGED <<cstderr, cexit>>
    /\ UNCHANGED <<cargs, cenv, client>>
    /\ UNCHANGED <<serverVars, directVars, concVars, ctest>>

\* case "list-resources"
ClientMainListResources ==
    /\ cpc = "connected"
    /\ ClientGetenv("CLIENT_ACTION") = "list-resources"
    /\ \E rl \in ResourceListings :
          LET r == ListResources(net, rl)
          IN  /\ net' = r.net
              /\ cstdout' = cstdout \o r.out
              /\ IF r.err # NilErr
                 THEN Fatal(<<"Failed to list resources: ">> \o r.err)
                 ELSE /\ cpc' = "returning"
                      /\ UNCHANGED <<cstderr, cexit>>
    /\ UNCHANGED <<cargs, cenv, client>>
    /\ UNCHANGED <<serverVars, directVars, concVars, ctest>>

\* a call-tool case without the check of the tool name
ClientMainCallToolUnnamed ==
    /\ cpc = "connected"
    /\ ClientGetenv("CLIENT_ACTION") = "call-tool"
    /\ LET toolName == ClientGetenv("CLIENT_TOOL_NAME")
           parsed == jsonUnmarshalMap(ClientGetenv("CLIENT_TOOL_ARGS"))
       IN  IF ~parsed.ok
           THEN /\ Fatal(<<"Failed to parse tool arguments: ", "invalid JSON">>)
                /\ UNCHANGED <<net, cstdout>>
           ELSE \E outcome \in CallOutcomes :
                   LET r == CallTool(net, toolName, parsed.value, outcome)
                   IN  /\ net' = r.net
                       /\ cstdout' = cstdout \o r.out
                       /\ IF r.err # NilErr
                          THEN Fatal(<<"Failed to call tool: ">> \o r.err)
                          ELSE /\ cpc' = "returning"
                               /\ UNCHANGED <<cstderr, cexit>>
    /\ UNCHANGED <<cargs, cenv, client>>
    /\ UNCHANGED <<serverVars, directVars, concVars, ctest>>

\* case "call-tool": the tool name, then the JSON arguments, then the call
ClientMainCallTool ==
    /\ cpc = "connected"
    /\ ClientGetenv("CLIENT_ACTION") = "call-tool"
    /\ LET toolName == ClientGetenv("CLIENT_TOOL_NAME")
           parsed == jsonUnmarshalMap(ClientGetenv("CLIENT_TOOL_ARGS"))
       IN  IF toolName = ""
           THEN /\ Fatal(<<"Tool name is required for call-tool action">>)
                /\ UNCHANGED <<net, cstdout>>
           ELSE IF ~parsed.ok
           THEN /\ Fatal(<<"Failed to parse tool arguments: ", "invalid JSON">>)
                /\ UNCHANGED <<net, cstdout>>
           ELSE \E outcome \in CallOutcomes :
                   LET r == CallTool(net, toolName, parsed.value, outcome)
                   IN  /\ net' = r.net
                       /\ cstdout' = cstdout \o r.out
                       /\ IF r.err # NilErr
                          THEN Fatal(<<"Failed to call tool: ">> \o r.err)
                          ELSE /\ cpc' = "returning"
                               /\ UNCHANGED <<cstderr, cexit>>
    /\ UNCHANGED <<cargs, cenv, client>>
    /\ UNCHANGED <<serverVars, directVars, concVars, ctest>>

\* a default branch that treats an unknown action name as list-tools
ClientMainUnknownActionListing ==
    /\ cpc = "connected"
    /\ ClientGetenv("CLIENT_ACTION") \notin {"info", "list-tools", "list-resources", "call-tool"}
    /\ \E tl \in ToolListings :
          LET r == ListTools(net, tl)
          IN  /\ net' = r.net
              /\ cstdout' = cstdout \o r.out
              /\ IF r.err # NilErr
                 THEN Fatal(<<"Failed to list tools: ">> \o r.err)
                 ELSE /\ cpc' = "returning"
                      /\ UNCHANGED <<cstderr, cexit>>
    /\ UNCHANGED <<cargs, cenv, client>>
    /\ UNCHANGED <<serverVars, directVars, concVars, ctest>>

\* default: an action name that is none of the four
ClientMainUnknownAction ==
    /\ cpc = "connected"
    /\ ClientGetenv("CLIENT_ACTION") \notin {"info", "list-tools", "list-resources", "call-tool"}
    /\ Fatal(<<"Unknown action: ", ClientGetenv("CLIENT_ACTION")>>)
    /\ UNCHANGED <<cargs, cenv, client, net, cstdout>>
    /\ UNCHANGED <<serverVars, directVars, concVars, ctest>>

\* main returns: the deferred client.Close() and cancel() run, exit status 0
ClientMainReturns ==
    /\ cpc = "returning"
    /\ LET r == Close(client, net)
       IN  /\ client' = r.client
           /\ net' = r.net
    /\ cexit' = 0
    /\ cpc' = "exited"
    /\ UNCHANGED <<cargs, cenv, cstdout, cstderr>>
    /\ UNCHANGED <<serverVars, directVars, concVars, ctest>>

\* the command lines and environments the client is started with
ClientFlagTransports == {Unset, Set("sse"), Set("streamable-http"), Set("websocket")}
ClientFlagPorts == {Unset, Set(9090)}
ClientFlagCommands == {Unset, Set("yardstick-server")}
ClientFlagActions == {Unset, Set("list-tools"), Set("list-resources"), Set("call-tool"),
                      Set("bogus")}
ClientFlagTools == {Unset, Set("echo")}
ClientFlagArgs == {Unset} \cup {Set(b) : b \in ArgBlobs}
ClientEnvTransports == {Unset, Set("stdio")}
ClientEnvPorts == {Unset, Set(<<56, 48>>)}                    \* "80"

\* the client process before main runs
ClientStart(FlagT, FlagP, FlagC, FlagA, FlagTool, FlagArgs, Rest, EnvT, EnvP, EnvC) ==
    /\ cpc = "start"
    /\ cargs \in [transport : FlagT, address : {Unset}, port : FlagP, command : FlagC,
                  action : FlagA, tool : FlagTool, args : FlagArgs,
                  rest : Rest]
    /\ cenv \in [TRANSPORT : EnvT, ADDRESS : {Unset}, PORT : EnvP, COMMAND : EnvC,
                 CLIENT_ACTION : {Unset}, CLIENT_TOOL_NAME : {Unset},
                 CLIENT_TOOL_ARGS : {Unset}]
    /\ client = NewClient(Config("", "", 0, "", <<>>))
    /\ net = NoNet
    /\ cstdout = <<>>
    /\ cstderr = <<>>
    /\ cexit = NoExit
    /\ ctest = NotCalled

ClientIdle ==
    /\ ClientStart({Unset}, {Unset}, {Unset}, {Unset}, {Unset}, {Unset}, {<<>>},
                   {Unset}, {Unset}, {Unset})

-----------------------------------------------------------------------------
(* The server process *)

DirectIdle ==
    /\ echoIn = [req |-> CallToolRequest(FALSE, NilMeta), params |-> EchoRequest(<<>>)]
    /\ validRet = NotCalled
    /\ echoRet = NotCalled
    /\ echoPrev = NotCalled

ConcIdle ==
    /\ calls = <<>>
    /\ results = [queue |-> <<>>, received |-> 0, failures |-> 0]

\* the process before main runs: the package variables hold their zero values
ServerStart(ArgT, ArgP, EnvT, EnvLegacyT, EnvP, EnvH, EnvV) ==
    /\ pc = "start"
    /\ args \in [transport : ArgT, port : ArgP]
    /\ env \in [MCP_TRANSPORT : EnvT, TRANSPORT : EnvLegacyT, PORT : EnvP,
                AUTH_HEADER : EnvH, AUTH_VALUE : EnvV]
    /\ transport = ""
    /\ port = 0
    /\ authHeader = ""
    /\ authValue = ""
    /\ tools = {}
    /\ mux = <<>>
    /\ mode = "none"
    /\ stderr = <<>>
    /\ exitCode = NoExit
    /\ reqs = [i \in Slots |-> NoReq]

ServerIdle ==
    /\ ServerStart({Unset}, {Unset}, {Unset}, {Unset}, {Unset}, {Unset}, {Unset})

Init ==
    /\ ServerStart(ArgTransports, ArgPorts, EnvTransports, {Unset}, EnvPorts,
                   EnvAuthHeaders, EnvAuthValues)
    /\ DirectIdle
    /\ ConcIdle
    /\ ClientIdle

Next ==
    \/ ParseConfig
    \/ AddTool
    \/ StartStdio
    \/ StdioRunReturns
    \/ StartSSE
    \/ StartStreamableHTTP
    \/ ListenAndServeReturns
    \/ UnknownTransport
    \/ \E i \in Slots : ServeHTTP(i)
    \/ \E i \in Slots : ServeStdio(i)

Spec == Init /\ [][Next]_vars

-----------------------------------------------------------------------------
(* The server's configuration alone, over wider command lines and environments *)

ConfigArgPorts == {Unset, Set(9090)}
ConfigEnvTransports == {Unset, Set("sse"), Set("stdio")}
ConfigEnvLegacyTransports == {Unset, Set("streamable-http"), Set("sse")}
\* "9091", "80a", "", "-1"
ConfigEnvPorts == {Unset, Set(<<57, 48, 57, 49>>), Set(<<56, 48, 97>>), Set(<<>>),
                   Set(<<45, 49>>)}

InitConfig ==
    /\ ServerStart(ArgTransports, ConfigArgPorts, ConfigEnvTransports,
                   ConfigEnvLegacyTransports, ConfigEnvPorts, {Unset}, {Unset})
    /\ DirectIdle
    /\ ConcIdle
    /\ ClientIdle

NextConfig == ParseConfig

SpecConfig == InitConfig /\ [][NextConfig]_vars

-----------------------------------------------------------------------------
(* Direct calls of the validator and of the handler, as the unit tests make them *)

InitDirect ==
    /\ ServerIdle
    /\ ConcIdle
    /\ ClientIdle
    /\ echoIn \in [req : Requests, params : {EchoRequest(s) : s \in Inputs}]
    /\ validRet = NotCalled
    /\ echoRet = NotCalled
    /\ echoPrev = NotCalled

\* result := validateAlphanumeric(tt.input)
CallValidateAlphanumeric ==
    /\ ~validRet.called
    /\ validRet' = [called |-> TRUE, value |-> validateAlphanumeric(echoIn.params.Input)]
    /\ UNCHANGED <<echoIn, echoRet, echoPrev>>
    /\ UNCHANGED <<serverVars, concVars, clientVars>>

\* result, response, err := echoHandler(context.Background(), req, params)
CallEchoHandler ==
    /\ ~echoRet.called
    /\ echoRet' = [called |-> TRUE, ret |-> echoHandler(echoIn.req, echoIn.params)]
    /\ UNCHANGED <<echoIn, validRet, echoPrev>>
    /\ UNCHANGED <<serverVars, concVars, clientVars>>

NextDirect ==
    \/ CallValidateAlphanumeric
    \/ CallEchoHandler

SpecDirect == InitDirect /\ [][NextDirect]_vars

-----------------------------------------------------------------------------
(* Repeated calls of the handler, one after the other, with inputs that recur *)

\* 'a' and the space
RepeatChars == {97, 32}
RepeatInputs == SeqsUpTo(RepeatChars, MaxLen)

InitRepeat ==
    /\ ServerIdle
    /\ ConcIdle
    /\ ClientIdle
    /\ DirectIdle

\* one more call of echoHandler; the call it replaces is remembered in place
\* of the one remembered so far, or dropped
CallEchoHandlerAgain ==
    /\ \E req \in Requests, input \in RepeatInputs, remember \in BOOLEAN :
          /\ echoIn' = [req |-> req, params |-> EchoRequest(input)]
          /\ echoRet' = [called |-> TRUE, ret |-> echoHandler(req, EchoRequest(input))]
          /\ echoPrev' = IF echoRet.called /\ remember
                         THEN [called |-> TRUE, in |-> echoIn, ret |-> echoRet.ret]
                         ELSE echoPrev
    /\ UNCHANGED validRet
    /\ UNCHANGED <<serverVars, concVars, clientVars>>

NextRepeat == CallEchoHandlerAgain

SpecRepeat == InitRepeat /\ [][NextRepeat]_vars

-----------------------------------------------------------------------------
(* Concurrent calls of the handler: one goroutine per request, each reporting *)
(* on a buffered channel that the test's main goroutine drains               *)

Goroutines == 0..(NumCalls - 1)

\* strconv.Itoa for a non-negative integer, as code points
RECURSIVE Itoa(_)
Itoa(n) == IF n < 10 THEN <<48 + n>> ELSE Append(Itoa(n \div 10), 48 + (n % 10))

\* fmt.Sprintf("test%d", id)
SprintfTest(id) == <<116, 101, 115, 116>> \o Itoa(id)

NoCall == [pc |-> "none", id |-> 0, req |-> CallToolRequest(FALSE, NilMeta),
           params |-> EchoRequest(<<>>), ret |-> NotCalled]

InitConc ==
    /\ ServerIdle
    /\ DirectIdle
    /\ ClientIdle
    /\ calls = [g \in Goroutines |-> NoCall]
    /\ results = [queue |-> <<>>, received |-> 0, failures |-> 0]

\* go func(id int) {...}(i): the loop starts the goroutines in order, each
\* with its own copy of the loop variable
Spawn(g) ==
    /\ calls[g].pc = "none"
    /\ \A j \in Goroutines : j < g => calls[j].pc # "none"
    /\ calls' = [calls EXCEPT ![g] = [NoCall EXCEPT !.pc = "spawned", !.id = g]]
    /\ UNCHANGED results
    /\ UNCHANGED <<serverVars, directVars, clientVars>>

\* req := &mcp.CallToolRequest{}; params := EchoRequest{Input: fmt.Sprintf("test%d", id)}
Build(g) ==
    /\ calls[g].pc = "spawned"
    /\ calls' = [calls EXCEPT ![g].pc = "built",
                              ![g].req = CallToolRequest(FALSE, NilMeta),
                              ![g].params = EchoRequest(SprintfTest(calls[g].id))]
    /\ UNCHANGED results
    /\ UNCHANGED <<serverVars, directVars, clientVars>>

\* params declared once outside the closure: every goroutine passes the value
\* written last (here the one of the highest goroutine that has built)
HandlerParamsShared(g) ==
    LET built == {j \in Goroutines : calls[j].pc \notin {"none", "spawned"}}
    IN  calls[CHOOSE j \in built : \A k \in built : k <= j].params

\* the params the goroutine passes to the handler: its own local
HandlerParams(g) == calls[g].params

\* result, response, err := echoHandler(ctx, req, params)
Handle(g) ==
    /\ calls[g].pc = "built"
    /\ calls' = [calls EXCEPT ![g].pc = "returned",
                              ![g].ret = [called |-> TRUE,
                                          ret |-> echoHandler(calls[g].req,
                                                              HandlerParams(g))]]
    /\ UNCHANGED results
    /\ UNCHANGED <<serverVars, directVars, clientVars>>

\* what the goroutine sends: the error, or a complaint, or nil
Verdict(c) ==
    IF c.ret.ret.err # NoError THEN c.ret.ret.err
    ELSE IF ~c.ret.ret.result.isNil THEN "expected nil result for request"
    ELSE IF c.ret.ret.response.Output # SprintfTest(c.id) THEN "expected, got"
    ELSE NoError

\* results <- ...
Report(g) ==
    /\ calls[g].pc = "returned"
    /\ calls' = [calls EXCEPT ![g].pc = "done"]
    /\ results' = [results EXCEPT !.queue = Append(@, Verdict(calls[g]))]
    /\ UNCHANGED <<serverVars, directVars, clientVars>>

\* err := <-results; assert.NoError(t, err), once the spawning loop is over
Collect ==
    /\ \A g \in Goroutines : calls[g].pc # "none"
    /\ results.received < NumCalls
    /\ Len(results.queue) > 0
    /\ results' = [queue |-> Tail(results.queue),
                   received |-> results.received + 1,
                   failures |-> results.failures
                                + (IF Head(results.queue) # NoError THEN 1 ELSE 0)]
    /\ UNCHANGED calls
    /\ UNCHANGED <<serverVars, directVars, clientVars>>

NextConc ==
    \/ \E g \in Goroutines : Spawn(g)
    \/ \E g \in Goroutines : Build(g)
    \/ \E g \in Goroutines : Handle(g)
    \/ \E g \in Goroutines : Report(g)
    \/ Collect

SpecConc == InitConc /\ [][NextConc]_vars

-----------------------------------------------------------------------------
(* The client process *)

InitClient ==
    /\ ClientStart(ClientFlagTransports, ClientFlagPorts, ClientFlagCommands,
                   ClientFlagActions, ClientFlagTools, ClientFlagArgs, {<<>>},
                   ClientEnvTransports, ClientEnvPorts, {Unset})
    /\ ServerIdle
    /\ DirectIdle
    /\ ConcIdle

NextClient ==
    \/ ClientMainStart
    \/ ClientMainConnect
    \/ ClientMainInfo
    \/ ClientMainListTools
    \/ ClientMainListResources
    \/ ClientMainCallTool
    \/ ClientMainUnknownAction
    \/ ClientMainReturns

SpecClient == InitClient /\ [][NextClient]_vars

-----------------------------------------------------------------------------
(* Direct calls of the client's methods, as the unit tests make them *)

\* the Config values a test constructs; Config{} is the first of each
TestConfigs ==
    {Config(t, a, p, c, <<>>) :
        t \in {"", "stdio", "sse", "streamable-http", "unsupported"},
        a \in {"", "localhost"}, p \in {0, 8080}, c \in {"", "echo"}}

Called(method, config, err) ==
    [called |-> TRUE, method |-> method, config |-> config, err |-> err]

InitClientDirect ==
    /\ ClientIdle
    /\ ServerIdle
    /\ DirectIdle
    /\ ConcIdle

\* client := NewClient(config)
TestNewClient ==
    /\ ~ctest.called
    /\ \E config \in TestConfigs :
          /\ client' = NewClient(config)
          /\ ctest' = Called("NewClient", config, NilErr)
    /\ UNCHANGED <<cpc, cargs, cenv, net, cstdout, cstderr, cexit>>
    /\ UNCHANGED <<serverVars, directVars, concVars>>

\* err := client.Connect(ctx)
TestClientConnect ==
    /\ ctest.called /\ ctest.method = "NewClient"
    /\ \E handshakeOK \in BOOLEAN :
          LET r == Connect(client, net, handshakeOK)
          IN  /\ client' = r.client
              /\ net' = r.net
              /\ ctest' = Called("Connect", ctest.config, r.err)
    /\ UNCHANGED <<cpc, cargs, cenv, cstdout, cstderr, cexit>>
    /\ UNCHANGED <<serverVars, directVars, concVars>>

\* err := client.Close()
TestClientClose ==
    /\ ctest.called /\ ctest.method \in {"NewClient", "Connect"}
    /\ \E sessionErr \in {NilErr, <<"close failed">>} :
          LET r == Close(client, net)
          IN  /\ client' = r.client
              /\ net' = r.net
              /\ ctest' = Called("Close", ctest.config, CloseErr(client, sessionErr))
    /\ UNCHANGED <<cpc, cargs, cenv, cstdout, cstderr, cexit>>
    /\ UNCHANGED <<serverVars, directVars, concVars>>

NextClientDirect ==
    \/ TestNewClient
    \/ TestClientConnect
    \/ TestClientClose

SpecClientDirect == InitClientDirect /\ [][NextClientDirect]_vars

-----------------------------------------------------------------------------
(* The client started on a subprocess: the command from the flag or from the *)
(* environment, with and without trailing arguments                          *)

StdioFlagTransports == {Unset, Set("sse")}
StdioFlagCommands == {Unset, Set("docker")}
StdioRests == {<<>>, <<"run", "--rm", "-i", "server:latest">>, <<"--transport", "stdio">>}
StdioEnvCommands == {Unset, Set("yardstick-server"), Set("")}

InitClientStdio ==
    /\ ClientStart(StdioFlagTransports, {Unset}, StdioFlagCommands, ClientFlagActions,
                   {Unset}, {Unset}, StdioRests, ClientEnvTransports, {Unset},
                   StdioEnvCommands)
    /\ ServerIdle
    /\ DirectIdle
    /\ ConcIdle

SpecClientStdio == InitClientStdio /\ [][NextClient]_vars

-----------------------------------------------------------------------------
(* The client run against the server: the integration script starts a server *)
(* in one mode and calls its echo tool with the client on the same transport *)

\* the argument texts of the model as code points, as the handler reads them
CodePoints(s) ==
    CASE s = "hellomatey123" ->
            <<104, 101, 108, 108, 111, 109, 97, 116, 101, 121, 49, 50, 51>>
      [] s = "test123" -> <<116, 101, 115, 116, 49, 50, 51>>
      [] s = "hello world" -> <<104, 101, 108, 108, 111, 32, 119, 111, 114, 108, 100>>
      [] OTHER -> <<>>

\* the arguments object decoded into an EchoRequest: Input is the "input" member
EchoArguments(arguments) ==
    EchoRequest(IF "input" \in DOMAIN arguments THEN CodePoints(arguments["input"])
                ELSE <<>>)

\* the tool's input schema: "input" is required and matches ^[a-zA-Z0-9]+$
inputSchemaAccepts(arguments) ==
    /\ "input" \in DOMAIN arguments
    /\ alphanumericRegexMatchString(CodePoints(arguments["input"]))

\* json.Marshal of an EchoResponse: {"output":"<Output>"}
MarshalEchoResponse(response) ==
    <<123, 34, 111, 117, 116, 112, 117, 116, 34, 58, 34>> \o response.Output
        \o <<34, 125>>

\* the server's answers to tools/call: an unknown tool is a protocol error; the
\* echo tool's handler result is returned as it is, and a nil result becomes one
\* text content holding the marshalled response. Arguments the input schema
\* refuses may be turned down before the handler or reach it
ToolsCall(toolName, arguments) ==
    IF toolName \notin tools
    THEN {[ok |-> FALSE, content |-> <<>>]}
    ELSE LET ret == echoHandler(CallToolRequest(TRUE, NilMeta), EchoArguments(arguments))
             handled ==
                 [ok |-> TRUE,
                  content |-> IF ret.result.isNil
                              THEN <<TextContent(MarshalEchoResponse(ret.response))>>
                              ELSE ret.result.Content]
         IN  IF inputSchemaAccepts(arguments)
             THEN {handled}
             ELSE {handled, [ok |-> FALSE, content |-> <<>>]}

\* the path of the URL the client's transport was built with
ConnectPath(config) ==
    IF config.Transport = "sse" THEN connectSSE(config).transport.url.path
    ELSE connectStreamableHTTP(config).transport.url.path

\* one message of the client reaching the server: on stdio it is read from the
\* subprocess's standard input, on the HTTP transports it is a request to the
\* client's URL that carries no header of the client's own (the transports are
\* built with nil options)
Deliver(config, outcome) ==
    IF config.Transport = "stdio"
    THEN ProtocolServeHTTP([NoReq EXCEPT !.via = "stdin"], outcome)
    ELSE MuxServeHTTP([NoReq EXCEPT !.via = "http", !.path = ConnectPath(config),
                                    !.headers = NoHeaders], outcome)

\* the server is up where the client looks for it
Listening(config) ==
    /\ pc = "serving"
    /\ IF config.Transport = "stdio"
       THEN mode = "stdio"
       ELSE /\ mode \in {"sse", "streamable-http"}
            /\ config.Address = "localhost"
            /\ config.Port = port

\* the server took the message and answered it
Answered(config, outcome) ==
    /\ Listening(config)
    /\ LET r == Deliver(config, outcome)
       IN  /\ r.nextCalls = 1
           /\ r.status \in {0, 200}

\* client.Connect(ctx) once the server has started or given up: the handshake
\* succeeds when the server answers it
E2EConnect ==
    /\ cpc = "parsed"
    /\ pc \in {"serving", "exited"}
    /\ LET r == Connect(client, net, Answered(client.config, "other"))
       IN  /\ client' = r.client
           /\ net' = r.net
           /\ IF r.err # NilErr
              THEN Fatal(<<"Failed to connect to MCP server: ">> \o r.err)
              ELSE /\ cpc' = "connected"
                   /\ UNCHANGED <<cstderr, cexit>>
    /\ UNCHANGED <<cargs, cenv, cstdout>>
    /\ UNCHANGED <<serverVars, directVars, concVars, ctest>>

\* case "call-tool", the request answered by the server
E2ECallTool ==
    /\ cpc = "connected"
    /\ ClientGetenv("CLIENT_ACTION") = "call-tool"
    /\ LET toolName == ClientGetenv("CLIENT_TOOL_NAME")
           parsed == jsonUnmarshalMap(ClientGetenv("CLIENT_TOOL_ARGS"))
       IN  IF toolName = ""
           THEN /\ Fatal(<<"Tool name is required for call-tool action">>)
                /\ UNCHANGED <<net, cstdout>>
           ELSE IF ~parsed.ok
           THEN /\ Fatal(<<"Failed to parse tool arguments: ", "invalid JSON">>)
                /\ UNCHANGED <<net, cstdout>>
           ELSE \E outcome \in (IF Answered(client.config, "tool")
                                THEN ToolsCall(toolName, parsed.value)
                                ELSE {[ok |-> FALSE, content |-> <<>>]}) :
                   LET r == CallTool(net, toolName, parsed.value, outcome)
                   IN  /\ net' = r.net
                       /\ cstdout' = cstdout \o r.out
                       /\ IF r.err # NilErr
                          THEN Fatal(<<"Failed to call tool: ">> \o r.err)
                          ELSE /\ cpc' = "returning"
                               /\ UNCHANGED <<cstderr, cexit>>
    /\ UNCHANGED <<cargs, cenv, client>>
    /\ UNCHANGED <<serverVars, directVars, concVars, ctest>>

\* the server in each mode, on the default port or on PORT=9090, with and without
\* AUTH_HEADER and AUTH_VALUE; the client on each transport, on the default port
\* or -port 9090, calling echo with "hellomatey123", "test123" or "hello world"
InitE2E ==
    /\ ServerStart({Unset, Set("sse"), Set("streamable-http")}, {Unset}, {Unset},
                   {Unset}, {Unset, Set(<<57, 48, 57, 48>>)},
                   {Unset, Set("X-Auth-Token")}, {Unset, Set("secret123")})
    /\ ClientStart({Unset, Set("sse"), Set("streamable-http")}, {Unset, Set(9090)},
                   {Set("yardstick-server")}, {Set("call-tool")}, {Set("echo")},
                   {Set("{\"input\":\"hellomatey123\"}"),
                    Set("{\"input\": \"test123\"}"),
                    Set("{\"input\": \"hello world\"}")},
                   {<<>>}, {Unset}, {Unset}, {Unset})
    /\ DirectIdle
    /\ ConcIdle

NextE2E ==
    \/ ParseConfig
    \/ AddTool
    \/ StartStdio
    \/ StartSSE
    \/ StartStreamableHTTP
    \/ ClientMainStart
    \/ E2EConnect
    \/ E2ECallTool
    \/ ClientMainReturns

SpecE2E == InitE2E /\ [][NextE2E]_vars

-----------------------------------------------------------------------------
(* Properties *)

AsciiLetters == (97..122) \cup (65..90)
AsciiDigits == 48..57

\* non-empty and made of ASCII letters and digits only
NonEmptyAlphanumeric(s) ==
    /\ Len(s) >= 1
    /\ \A i \in 1..Len(s) : s[i] \in AsciiLetters \cup AsciiDigits

\* space ! - . _ and the other symbols of CharSet
Symbols == CharSet \ (AsciiLetters \cup AsciiDigits)

DirectInput == echoIn.params.Input

\* C1: validateAlphanumeric(s) is true exactly when s is non-empty and every
\* character of s is an ASCII letter or digit; it is false for the empty string
\* and for every string holding a space, punctuation, underscore, dash, dot or
\* other symbol.
C1_ValidatorIffAlphanumeric ==
    validRet.called =>
        /\ validRet.value <=> NonEmptyAlphanumeric(DirectInput)
        /\ DirectInput = <<>> => ~validRet.value
        /\ (\E i \in 1..Len(DirectInput) : DirectInput[i] \in Symbols) => ~validRet.value

C1_Witness ==
    /\ validRet.called
    /\ validRet.value
    /\ Len(DirectInput) = 2
    /\ DirectInput[1] \in AsciiLetters
    /\ DirectInput[2] \in AsciiDigits

\* C2: for every input that passes the Validator, echoHandler returns no error
\* and a response whose Output is the input itself, unchanged.
C2_ValidInputEchoed ==
    (echoRet.called /\ validateAlphanumeric(DirectInput)) =>
        /\ echoRet.ret.err = NoError
        /\ echoRet.ret.response.Output = DirectInput

C2_Witness ==
    /\ echoRet.called
    /\ NonEmptyAlphanumeric(DirectInput)
    /\ Len(DirectInput) = 2
    /\ echoRet.ret.response.Output = DirectInput

HasMetadata(req) ==
    /\ ~RequestMeta(req).isNil
    /\ DOMAIN RequestMeta(req).kv # {}

\* C4: a call with valid input and a non-empty metadata map returns a non-nil
\* result whose Meta holds every key of the request's metadata with the same
\* value, together with the normal response.
C4_MetadataEchoed ==
    (echoRet.called /\ validateAlphanumeric(DirectInput) /\ HasMetadata(echoIn.req)) =>
        /\ ~echoRet.ret.result.isNil
        /\ ~echoRet.ret.result.Meta.isNil
        /\ \A k \in DOMAIN echoIn.req.Meta.kv :
              /\ k \in DOMAIN echoRet.ret.result.Meta.kv
              /\ echoRet.ret.result.Meta.kv[k] = echoIn.req.Meta.kv[k]
        /\ echoRet.ret.response.Output = DirectInput

\* C5: a call with valid input and no metadata returns a nil result pointer
\* together with the response.
C5_NoMetadataNilResult ==
    (echoRet.called /\ validateAlphanumeric(DirectInput)
                    /\ RequestMeta(echoIn.req).isNil) =>
        /\ echoRet.ret.result.isNil
        /\ echoRet.ret.err = NoError
        /\ echoRet.ret.response.Output = DirectInput

C5_Witness ==
    /\ echoRet.called
    /\ NonEmptyAlphanumeric(DirectInput)
    /\ echoIn.req.hasParams
    /\ echoIn.req.Meta.isNil
    /\ echoRet.ret.result.isNil

\* the requests the gate has looked at
Checked == {i \in Slots : reqs[i].state = "answered" /\ reqs[i].checked}

\* the request carries the header under the configured name
Carries(r, name) == CanonicalMIMEHeaderKey(name) \in DOMAIN r.headers

\* C6: with a non-empty expected header name and a non-empty expected value,
\* checkAuth passes a request exactly when the request's value for that header
\* equals the expected value, case included; any other value, or no such header,
\* fails with the error "unauthorized".
C6_GatePassesIffExactMatch ==
    (authHeader # "" /\ authValue # "") =>
        \A i \in Checked :
            /\ reqs[i].authErr = NoError
                  <=> HeaderGet(reqs[i].headers, authHeader) = authValue
            /\ reqs[i].authErr \in {NoError, "unauthorized"}
            /\ ~Carries(reqs[i], authHeader) => reqs[i].authErr = "unauthorized"

C6_Witness ==
    /\ authHeader # ""
    /\ authValue = "secret123"
    /\ \E i \in Checked :
          /\ HeaderGet(reqs[i].headers, authHeader) = "SECRET123"
          /\ reqs[i].authErr = "unauthorized"

\* C7: with an empty expected header name checkAuth returns no error for every
\* request, whatever headers it carries and whatever the expected value is.
C7_DisabledGatePassesAll ==
    (pc # "start" /\ authHeader = "") =>
        \A i \in Checked : reqs[i].authErr = NoError /\ reqs[i].status # 401

C7_Witness ==
    /\ authHeader = ""
    /\ authValue = "secret123"
    /\ \E i \in Checked :
          /\ HeaderGet(reqs[i].headers, "X-Auth-Token") = "wrongvalue"
          /\ reqs[i].authErr = NoError

\* the endpoint of each HTTP mode
Endpoint(t) == IF t = "sse" THEN "/sse" ELSE "/mcp"

\* the request does not satisfy the configured gate
FailsGate(r) == authHeader # "" /\ HeaderGet(r.headers, authHeader) # authValue

HTTPAnswered == {i \in Slots : reqs[i].state = "answered" /\ reqs[i].via = "http"}

\* C8: in both HTTP modes a request on the mode's endpoint (/sse, /mcp) that fails
\* the gate is answered 401 and neither the protocol handler nor the echo tool is
\* invoked for it; the protocol handler is invoked only for requests the gate
\* has checked and passed.
C8_GateBeforeProtocolHandler ==
    \A i \in HTTPAnswered :
        /\ (reqs[i].path = Endpoint(transport) /\ FailsGate(reqs[i])) =>
              /\ reqs[i].status = 401
              /\ reqs[i].nextCalls = 0
              /\ reqs[i].toolCalls = 0
        /\ (reqs[i].nextCalls > 0 \/ reqs[i].toolCalls > 0) =>
              /\ reqs[i].checked
              /\ reqs[i].authErr = NoError
              /\ ~FailsGate(reqs[i])

C8_Witness ==
    /\ mode = "streamable-http"
    /\ \E i \in HTTPAnswered :
          /\ reqs[i].path = "/mcp"
          /\ FailsGate(reqs[i])
          /\ reqs[i].status = 401
          /\ reqs[i].nextCalls = 0

\* the calls that have returned
Returned == {g \in Goroutines : calls[g].pc \in {"returned", "done"}}

\* C9: under every interleaving of the concurrent calls, with pairwise distinct
\* valid inputs, each call's Output is that call's own input, no two calls
\* return the same Output, and no call fails.
C9_NoCrossTalk ==
    /\ \A g \in Returned :
          /\ calls[g].ret.ret.err = NoError
          /\ calls[g].ret.ret.result.isNil
          /\ calls[g].ret.ret.response.Output = calls[g].params.Input
    /\ \A g, h \in Returned :
          g # h => calls[g].ret.ret.response.Output # calls[h].ret.ret.response.Output
    /\ \A k \in 1..Len(results.queue) : results.queue[k] = NoError
    /\ results.failures = 0

C9_Witness ==
    /\ Returned = Goroutines
    /\ \A g, h \in Goroutines :
          /\ NonEmptyAlphanumeric(calls[g].params.Input)
          /\ g # h => calls[g].params.Input # calls[h].params.Input
    /\ results.received = NumCalls
    /\ results.failures = 0

\* the lines of the diagnostic stream
StderrLines == {stderr[k] : k \in 1..Len(stderr)}

\* C10: with a transport name other than stdio, sse, streamable-http the process
\* does nothing but exit with status 1 after printing the line that names the
\* three supported transports; no stdio loop and no HTTP listener is started.
C10_UnknownTransportExits ==
    (pc # "start" /\ transport \notin Supported) =>
        /\ pc \in {"configured", "registered", "exited"}
        /\ mode = "none"
        /\ mux = <<>>
        /\ \A i \in Slots : reqs[i].state = "none"
        /\ "Starting MCP server with stdio transport" \notin StderrLines
        /\ pc = "exited" =>
              /\ exitCode = 1
              /\ "Supported transports: stdio, sse, streamable-http" \in StderrLines
        /\ pc # "exited" => exitCode = NoExit

C10_Witness ==
    /\ pc = "exited"
    /\ transport = "grpc"
    /\ exitCode = 1
    /\ "Supported transports: stdio, sse, streamable-http" \in StderrLines

\* the endpoints a listener mode serves
ModeEndpoints(m) ==
    CASE m = "sse" -> {"/sse"}
      [] m = "streamable-http" -> {"/mcp"}
      [] OTHER -> {}

OneModeActive ==
    /\ mode \in {"none"} \cup Supported
    /\ mode # "none" => pc = "serving"
    /\ pc = "serving" => transport \in Supported /\ mode = transport
    /\ DOMAIN mux \subseteq ModeEndpoints(transport)
    /\ mode # "none" => DOMAIN mux = ModeEndpoints(mode)

ModeKept == pc \in {"serving", "exited"} => mode' \in {mode, "none"}

\* C11: for a recognised transport the server runs exactly one of the three
\* listener modes, the one the effective transport names, serving only that
\* mode's endpoint; the mode is chosen once at startup and never changes to
\* another mode while the process runs.
C11_ExactlyOneListenerMode == []OneModeActive /\ [][ModeKept]_vars

C11_Witness ==
    /\ pc = "serving"
    /\ mode = "sse"
    /\ \E i \in Slots : reqs[i].state = "answered" /\ reqs[i].path = "/mcp"

\* the text of a decimal integer, and the number it writes
IntegerText(s) ==
    LET digits == IF Len(s) > 0 /\ s[1] \in {43, 45} THEN Tail(s) ELSE s
    IN  Len(digits) > 0 /\ \A i \in 1..Len(digits) : digits[i] \in 48..57

RECURSIVE PlaceValue(_)
PlaceValue(digits) ==
    IF digits = <<>> THEN 0
    ELSE (digits[Len(digits)] - 48) + 10 * PlaceValue(SubSeq(digits, 1, Len(digits) - 1))

IntegerValue(s) ==
    IF s[1] = 45 THEN 0 - PlaceValue(Tail(s))
    ELSE IF s[1] = 43 THEN PlaceValue(Tail(s))
    ELSE PlaceValue(s)

FlagOrDefault(f, default) == IF args[f].set THEN args[f].val ELSE default

PortConfigured ==
    port = IF env.PORT.set /\ IntegerText(env.PORT.val) THEN IntegerValue(env.PORT.val)
           ELSE FlagOrDefault("port", 8080)

-----------------------------------------------------------------------------
(* Properties of the client *)

ClientTransports == {"stdio", "sse", "streamable-http"}

\* main has called Connect
ConnectCalled == cpc \in {"connected", "returning", "exited"}

\* the last line of the log
LastLog == cstderr[Len(cstderr)]

\* C13: Connect with a transport name other than stdio, sse and
\* streamable-http returns an error containing "unsupported transport type",
\* constructs no transport, and leaves the SDK client and the session nil.
C13_UnsupportedTransportRejected ==
    (ConnectCalled /\ client.config.Transport \notin ClientTransports) =>
        /\ cpc = "exited" /\ cexit = 1
        /\ Len(cstderr) = 1
        /\ ErrContains(LastLog, "unsupported transport type")
        /\ net.transports = <<>> /\ net.subprocs = 0 /\ net.handshakes = 0
        /\ ~client.client
        /\ client.session = NilSession

C13_Witness ==
    /\ cpc = "exited"
    /\ client.config.Transport = "websocket"
    /\ cargs.command.set
    /\ ErrContains(LastLog, "unsupported transport type")

\* C14: on the stdio transport, connectStdio with an empty command returns a
\* nil transport and an error containing "command is required", and Connect
\* fails before a subprocess is started or a handshake attempted; with a
\* non-empty command it returns a non-nil transport and no error.
C14_StdioNeedsCommand ==
    (cpc # "start" /\ client.config.Transport = "stdio") =>
        LET r == connectStdio(client.config)
        IN  IF client.config.Command = ""
            THEN /\ r.transport = NilTransport
                 /\ ErrContains(r.err, "command is required")
                 /\ ConnectCalled =>
                        /\ cpc = "exited" /\ cexit = 1
                        /\ ErrContains(LastLog, "command is required")
                        /\ net.transports = <<>>
                        /\ net.subprocs = 0 /\ net.handshakes = 0
            ELSE /\ r.transport # NilTransport
                 /\ r.transport.command = client.config.Command
                 /\ r.err = NilErr
                 /\ ConnectCalled => net.transports = <<r.transport>>

C14_Witness ==
    /\ cpc = "exited"
    /\ client.config.Transport = "stdio"
    /\ client.config.Command = ""
    /\ ErrContains(LastLog, "command is required")

\* the path a listener mode of the server is mounted on
MountedPaths(t) ==
    IF t = "sse" THEN DOMAIN MountSSE
    ELSE IF t = "streamable-http" THEN DOMAIN MountStreamable
    ELSE {}

\* C15: the SSE transport of the client targets http://{address}:{port}/sse and
\* its streamable-HTTP transport http://{address}:{port}/mcp, the path on which
\* the server mounts the handler of the same transport name.
C15_ClientMeetsServerEndpoint ==
    (ConnectCalled /\ client.config.Transport \in {"sse", "streamable-http"}) =>
        /\ Len(net.transports) = 1
        /\ net.transports[1].kind = client.config.Transport
        /\ net.transports[1].url =
              [scheme |-> "http", host |-> client.config.Address,
               port |-> client.config.Port,
               path |-> IF client.config.Transport = "sse" THEN "/sse" ELSE "/mcp"]
        /\ MountedPaths(client.config.Transport) = {net.transports[1].url.path}

C15_Witness ==
    /\ cpc = "connected"
    /\ client.config.Transport = "sse"
    /\ client.config.Port = 9090
    /\ net.transports[1].url.path = "/sse"

\* the -args texts that are not JSON
MalformedBlobs == {"{\"key\": \"value\"", "not json"}

\* a call-tool run whose -args text is malformed, once parseConfig has stored both
MalformedCallTool ==
    /\ cpc # "start"
    /\ ClientGetenv("CLIENT_ACTION") = "call-tool"
    /\ ClientGetenv("CLIENT_TOOL_ARGS") \in MalformedBlobs

ParseFailureLogged == Len(cstderr) > 0 /\ LastLog[1] = "Failed to parse tool arguments: "

C17_SessionClosedOnEveryExit ==
    (cpc = "exited" /\ ~client.session.isNil) =>
        /\ net.closes = 1
        /\ client.session.closed

\* the selected action has run
ActionRan(a) ==
    /\ cpc \in {"returning", "exited"}
    /\ ~client.session.isNil
    /\ ClientGetenv("CLIENT_ACTION") = a

ExitedNormally == cpc = "returning" \/ (cpc = "exited" /\ cexit = 0)
ExitedFatally == cpc = "exited" /\ cexit = 1

SessionLines ==
    <<Line("Server Info:", <<>>, <<>>),
      Line("  Session ID: %s", <<"session-1">>, <<>>),
      Line("  Connection: Active", <<>>, <<>>)>>

CountLine(f, reply) == IF reply.ok THEN <<Line(f, <<>>, <<Len(reply.items)>>)>> ELSE <<>>

\* C18: in the info action a failed ping is an error (fatal in main) and
\* nothing is printed; after a successful ping the session lines are printed,
\* each of the two counts is printed exactly when its listing succeeded, and
\* GetServerInfo returns no error whether or not the listings failed.
C18_InfoPingFatalListingsSwallowed ==
    ActionRan("info") =>
        IF ~net.sent[1].ok
        THEN /\ net.sent[1].method = "ping"
             /\ Len(net.sent) = 1
             /\ cstdout = <<>>
             /\ ExitedFatally
             /\ ErrContains(LastLog, "failed to ping server: ")
        ELSE /\ Len(net.sent) = 3
             /\ net.sent[1].method = "ping"
             /\ net.sent[2].method = "tools/list"
             /\ net.sent[3].method = "resources/list"
             /\ cstdout = (SessionLines
                            \o CountLine("  Tools Available: %d", net.sent[2]))
                           \o CountLine("  Resources Available: %d", net.sent[3])
             /\ ExitedNormally
             /\ cstderr = <<>>

C18_Witness ==
    /\ ActionRan("info")
    /\ cpc = "returning"
    /\ net.sent[1].ok /\ ~net.sent[2].ok /\ net.sent[3].ok
    /\ Len(cstdout) = 4

\* the entries printed for a listing, by the fields they show
ToolEntries(items) ==
    [i \in 1..Len(items) |-> Line("  - %s: %s", <<items[i].Name, items[i].Description>>, <<>>)]
ResourceEntriesByURI(items) ==
    [i \in 1..Len(items) |-> Line("  - %s: %s", <<items[i].URI, items[i].Description>>, <<>>)]
ResourceEntriesByName(items) ==
    [i \in 1..Len(items) |-> Line("  - %s: %s", <<items[i].Name, items[i].Description>>, <<>>)]

ToolsPrinted ==
    (ActionRan("list-tools") /\ net.sent[1].ok) =>
        /\ Len(cstdout) = 1 + Len(net.sent[1].items)
        /\ cstdout[1] = Line("Available tools (%d):", <<>>, <<Len(net.sent[1].items)>>)
        /\ Tail(cstdout) = ToolEntries(net.sent[1].items)

ResourcesPrinted(Entries(_)) ==
    (ActionRan("list-resources") /\ net.sent[1].ok) =>
        /\ Len(cstdout) = 1 + Len(net.sent[1].items)
        /\ cstdout[1] = Line("Available resources (%d):", <<>>, <<Len(net.sent[1].items)>>)
        /\ Tail(cstdout) = Entries(net.sent[1].items)

\* C19: list-tools prints, after a count line, one entry per returned tool with
\* its name and description; list-resources prints one entry per returned
\* resource with its URI and description; both in the order the server
\* returned the items, with nothing dropped, merged or reordered.
C19_ListingsPrintedInServerOrder ==
    /\ ToolsPrinted
    /\ ResourcesPrinted(ResourceEntriesByURI)

C19_Witness ==
    /\ ActionRan("list-resources")
    /\ net.sent[1].ok
    /\ Len(net.sent[1].items) = 2
    /\ net.sent[1].items[1].URI = "file:///z"
    /\ net.sent[1].items[2].URI = "file:///a"
    /\ Len(cstdout) = 3

\* C19 as the specification states it: both listings print the name and the
\* description of each item.
C19_ListingsPrintNames ==
    /\ ToolsPrinted
    /\ ResourcesPrinted(ResourceEntriesByName)

\* the requests whose failure GetServerInfo does not report
BestEffort(k) == ClientGetenv("CLIENT_ACTION") = "info" /\ k > 1

NoSecondAttempt ==
    /\ Len(net.transports) <= 1
    /\ net.subprocs <= 1
    /\ net.handshakes <= 1
    /\ \A j, k \in 1..Len(net.sent) : net.sent[j].method = net.sent[k].method => j = k

ConnectFailureFatal ==
    (ConnectCalled /\ client.session.isNil) =>
        /\ ExitedFatally
        /\ net.sent = <<>>
        /\ Len(cstderr) = 1 /\ LastLog[1] = "Failed to connect to MCP server: "

RequestFailureFatal(Exempt(_)) ==
    \A k \in 1..Len(net.sent) :
        (~net.sent[k].ok /\ ~Exempt(k)) => (k = Len(net.sent) /\ ExitedFatally)

Never(k) == FALSE

\* C20: the client never retries or reconnects: at most one transport, one
\* subprocess and one handshake per run, and no request is sent twice; a
\* failure to build the transport or to make the handshake, and a failed
\* ping, list or call, is the last thing the run does and ends it with status
\* 1, except the two listings of the info action, whose failure is not
\* reported and does not end the run.
C20_NoRetryFailuresFatal ==
    /\ NoSecondAttempt
    /\ ConnectFailureFatal
    /\ RequestFailureFatal(BestEffort)

C20_Witness ==
    /\ cpc = "exited" /\ cexit = 1
    /\ client.client /\ client.session.isNil
    /\ net.handshakes = 1
    /\ Len(net.transports) = 1

\* C20 as the specification states it: every failed ping, list or call ends
\* the run fatally with no further attempt.
C20_EveryFailureFatal ==
    /\ NoSecondAttempt
    /\ ConnectFailureFatal
    /\ RequestFailureFatal(Never)

\* the request each action begins with
ActionMethods(a) ==
    CASE a = "info" -> {"ping"}
      [] a = "list-tools" -> {"tools/list"}
      [] a = "list-resources" -> {"resources/list"}
      [] a = "call-tool" -> {"tools/call"}
      [] OTHER -> {}

\* the lines only one action prints or logs
ActionMarks(a) ==
    CASE a = "info" -> {"Server Info:", "Failed to get server info: "}
      [] a = "list-tools" -> {"Available tools (%d):", "Failed to list tools: "}
      [] a = "list-resources" -> {"Available resources (%d):", "Failed to list resources: "}
      [] a = "call-tool" -> {"%v", "Tool name is required for call-tool action",
                             "Failed to parse tool arguments: ", "Failed to call tool: "}
      [] OTHER -> {"Unknown action: "}

\* what the run shows of an action: its first request, its first printed
\* line, its log line
Marks ==
    (IF net.sent # <<>> THEN {net.sent[1].method} ELSE {})
    \cup (IF cstdout # <<>> THEN {cstdout[1].f} ELSE {})
    \cup (IF cstderr # <<>> THEN {LastLog[1]} ELSE {})

Performed(a) == Marks \cap (ActionMethods(a) \cup ActionMarks(a)) # {}

FourActions == {"info", "list-tools", "list-resources", "call-tool"}

\* a connected run whose switch on the action has run
Dispatched == cpc \in {"returning", "exited"} /\ ~client.session.isNil

C28_EmptyToolNameFatal ==
    (cpc # "start" /\ ClientGetenv("CLIENT_ACTION") = "call-tool"
                   /\ ClientGetenv("CLIENT_TOOL_NAME") = "") =>
        /\ \A k \in 1..Len(net.sent) : net.sent[k].method # "tools/call"
        /\ cpc # "returning"
        /\ cpc = "exited" =>
              /\ cexit = 1
              /\ ~client.session.isNil =>
                    LastLog = <<"Tool name is required for call-tool action">>

C28_Witness ==
    /\ cpc = "exited"
    /\ ~client.session.isNil
    /\ ClientGetenv("CLIENT_ACTION") = "call-tool"
    /\ ClientGetenv("CLIENT_TOOL_NAME") = ""
    /\ ClientGetenv("CLIENT_TOOL_ARGS") = "not json"
    /\ cexit = 1

-----------------------------------------------------------------------------
(* Properties of the Auth Gate's configuration and wrapper *)

\* a step that writes one of the two strings is parseConfig's, taken before
\* any endpoint is mounted and any listener runs
AuthConfigWrittenAtStartup ==
    (authHeader' # authHeader \/ authValue' # authValue) =>
        /\ pc = "start" /\ pc' = "configured"
        /\ mode = "none" /\ mux = <<>>
        /\ \A i \in Slots : reqs[i].state = "none"

\* after parseConfig the pair is the environment's, and the verdict recorded
\* for each request is the one the pair gives
AuthConfigFixed ==
    pc # "start" =>
        /\ authHeader = Getenv("AUTH_HEADER")
        /\ authValue = Getenv("AUTH_VALUE")
        /\ \A i \in Checked : reqs[i].authErr = checkAuth(reqs[i])

\* C25: the expected header name and the expected value are written only by
\* parseConfig, before any listener is started; no step that serves a request
\* writes them, so every request of a process is checked against the pair the
\* environment gave at startup.
C25_AuthConfigWriteOnce == []AuthConfigFixed /\ [][AuthConfigWrittenAtStartup]_vars

C25_Witness ==
    /\ pc = "serving"
    /\ authHeader = "X-Auth-Token" /\ authValue = "secret123"
    /\ \E i \in Checked : reqs[i].authErr = "unauthorized"

C27_WrapperForwardsOnce ==
    \A i \in Checked :
        /\ reqs[i].nextCalls = IF checkAuth(reqs[i]) = NoError THEN 1 ELSE 0
        /\ reqs[i].nextCalls > 0 <=> reqs[i].authErr = NoError
        /\ reqs[i].authErr = NoError =>
              /\ reqs[i].status \in {200, 400}
              /\ reqs[i].body = ""
              /\ reqs[i].path \in DOMAIN mux
              /\ reqs[i].toolCalls <= 1
        /\ reqs[i].authErr # NoError => reqs[i].toolCalls = 0

C27_Witness ==
    /\ authHeader = "x-auth-token" /\ authValue = "secret123"
    /\ \E i \in Checked :
          /\ reqs[i].authErr = NoError
          /\ reqs[i].nextCalls = 1
          /\ reqs[i].toolCalls = 1
          /\ reqs[i].headers = [k \in {"X-Auth-Token"} |-> <<"secret123">>]

-----------------------------------------------------------------------------
(* Properties of the client's subprocess command *)

\* C21: on the stdio transport with a command configured, by the -command
\* flag or by COMMAND, the trailing positional arguments are the arguments of
\* the configuration and of the subprocess transport, in their order.
C21_PositionalArgsReachSubprocess ==
    (cpc # "start" /\ client.config.Transport = "stdio" /\ client.config.Command # "") =>
        /\ client.config.Args = cargs.rest
        /\ ConnectCalled =>
              /\ Len(net.transports) = 1
              /\ net.transports[1].command = client.config.Command
              /\ net.transports[1].args = cargs.rest

-----------------------------------------------------------------------------
(* Properties of NewClient, Connect and Close called directly *)

\* NewClient stores the config as given and leaves client and session nil
FreshClient ==
    (ctest.called /\ ctest.method = "NewClient") =>
        /\ client.config = ctest.config
        /\ ~client.client
        /\ client.session = NilSession
        /\ net = NoNet

\* Connect leaves the session nil exactly when it returns an error
SessionOnlyOnSuccess ==
    (ctest.called /\ ctest.method = "Connect") =>
        /\ client.session.isNil <=> ctest.err # NilErr
        /\ client.config = ctest.config

\* a call of Close on a client without a session
ClosesWithoutSession ==
    /\ ctest.called /\ ctest.method # "Close"
    /\ ctest'.called /\ ctest'.method = "Close"
    /\ client.session.isNil

CloseWithoutSessionNoEffect ==
    ClosesWithoutSession => (ctest'.err = NilErr /\ client' = client /\ net' = net)

\* C29: NewClient stores the given config and leaves client and session nil;
\* a failed Connect leaves the session nil; and Close on a client without a
\* session, fresh or after a failed Connect, returns no error and changes
\* neither the client nor anything outside it.
C29_CloseWithoutSessionIsNoOp ==
    /\ [](FreshClient /\ SessionOnlyOnSuccess)
    /\ [][CloseWithoutSessionNoEffect]_vars

C29_Witness ==
    /\ ctest.called /\ ctest.method = "Close"
    /\ ctest.err = NilErr
    /\ client.client /\ client.session.isNil
    /\ net.handshakes = 1 /\ net.closes = 0

-----------------------------------------------------------------------------
(* Properties of repeated handler calls *)

\* the call made now and an earlier call had the same arguments
SameArguments ==
    /\ echoRet.called /\ echoPrev.called
    /\ echoPrev.in.params.Input = echoIn.params.Input
    /\ RequestMeta(echoPrev.in.req) = RequestMeta(echoIn.req)

SameArgumentsSameResult == SameArguments => echoPrev.ret = echoRet.ret

\* a step that calls the handler leaves the server's state as it was
HandlerCallKeepsServerState ==
    (echoRet' # echoRet \/ echoIn' # echoIn) =>
        UNCHANGED <<transport, port, authHeader, authValue, tools, mux, mode, reqs>>

-----------------------------------------------------------------------------
(* Properties of the client run against the server *)

\* t occurs in s as a run of consecutive elements
HasInfix(s, t) ==
    \E i \in 0..(Len(s) - Len(t)) : SubSeq(s, i + 1, i + Len(t)) = t

\* the input of the call, as the client was given it in -args
E2EInput == CodePoints(jsonUnmarshalMap(ClientGetenv("CLIENT_TOOL_ARGS")).value["input"])

\* the server is serving in the client's transport, where the client looks for it
MatchingMode == Listening(client.config) /\ mode = client.config.Transport

\* the gate lets a request without credentials through
GateAdmitsClient == checkAuth([NoReq EXCEPT !.headers = NoHeaders]) = NoError

E2EFinished == cpc \in {"returning", "exited"}

\* the one result the echo tool has for the input, whatever the transport
EchoedContent == MarshalEchoResponse(EchoResponse(E2EInput))

EchoSucceeded ==
    /\ ExitedNormally
    /\ ~client.session.isNil
    /\ cstdout = <<Line("%v", <<EchoedContent>>, <<>>)>>
    /\ HasInfix(cstdout[1].s[1], E2EInput)

EchoRefused ==
    /\ ExitedFatally
    /\ client.session.isNil
    /\ cstdout = <<>>

\* C23: a client call-tool of echo with a valid input against a server in the
\* matching mode succeeds and prints the same content, containing the input,
\* on stdio in every configuration and on sse and streamable-http when the
\* server's Auth Gate lets a request without credentials through; when the gate
\* refuses such requests the HTTP transports fail at connect and print nothing
C23_EchoSameWhereGateAdmits ==
    (E2EFinished /\ MatchingMode /\ validateAlphanumeric(E2EInput))
        => IF mode = "stdio" \/ GateAdmitsClient THEN EchoSucceeded ELSE EchoRefused

C23_Witness ==
    /\ E2EFinished
    /\ MatchingMode
    /\ mode = "sse"
    /\ validateAlphanumeric(E2EInput)
    /\ EchoSucceeded

\* the statement as the specification has it: success on all three transports
C23_EchoSameOnEveryTransport ==
    (E2EFinished /\ MatchingMode /\ validateAlphanumeric(E2EInput)) => EchoSucceeded

====
